---- MODULE Spec2Model ----
\* Verification model of packages/core/src/plugins/use-timing.ts (envelop):
\* the resolver wrapper (isThenable, resolveField, wrapResolver) and the
\* useTiming plugin's hook wiring, driven by a request pipeline.
EXTENDS Integers, Sequences, FiniteSets, Bags, TLC

VARIABLES
  \* ---- one invocation of a resolver produced by wrapResolver ----
  wst,        \* "idle" | "active": position of the wrapped resolver's caller
  inp,        \* inputs of the current invocation (hook and resolver behaviours)
  ret,        \* completion of the wrapped resolver seen by its caller
  prom,       \* state of the deferred values PA, PW, PR, PD
  calls,      \* resolver functions executed during the invocation, in order
  hookCalls,  \* values the after-hook was invoked with, in order
  callArgs,   \* (root, args, context, info) each executed resolver was called with
  replacedBefore, \* an earlier invocation of this wrapped resolver replaced the resolver
  \* ---- the useTiming plugin inside a request pipeline ----
  rawOptions, \* the options object given to useTiming
  opts,       \* merged options: enabled sinks and skipIntrospection
  depth,      \* wrapResolver layers around a field resolver of the schema
  pc,         \* position of the request in the pipeline
  source,     \* operation text of the request
  marker,     \* context[envelopIsIntrospectionSymbol]
  ctxWrites,  \* extendContext calls made on the request's context
  afterReg,   \* phases whose before-hook returned an after-callback
  emitted,    \* sink invocations since the latest request started, per category
  reads,      \* process.hrtime() calls since the latest request started, per category
  mode,       \* "none" | "execute" | "subscribe": operation the request runs
  rinv,       \* the invocation the plugin finished with last: its Measurements
  inflight,   \* bag of invocations whose deferred result has reactions outstanding
  nres,       \* field-resolver invocations made by the request
  \* ---- the clock and the measurements in flight ----
  now,        \* what process.hrtime() returns: [seconds, nanoseconds]
  spans,      \* per measurement: its closure's start marker and what it reported
  began,      \* clock at the moment each measurement's before-hook was called
  ended       \* clock at the moment each measurement's after-hook was called

wvars == <<wst, inp, ret, prom, calls, hookCalls, callArgs, replacedBefore>>
cvars == <<now, spans, began, ended>>
pvars == <<rawOptions, opts, depth, pc, source, marker, ctxWrites, afterReg, emitted, reads, mode, rinv, inflight, nres>>
vars == <<wst, inp, ret, prom, calls, hookCalls, callArgs, replacedBefore,
          rawOptions, opts, depth, pc, source, marker, ctxWrites, afterReg, emitted, reads, mode, rinv, inflight, nres,
          now, spans, began, ended>>

-----------------------------------------------------------------------------
\* JavaScript values, as far as the code inspects them: typeof, truthiness,
\* and the 'then' member.

JsVal(t, th, i) == [typ |-> t, then |-> th, id |-> i]

Undefined == JsVal("undefined", "absent", "undefined")
Null      == JsVal("object", "absent", "null")
Num42     == JsVal("number", "absent", "42")
ObjPlain  == JsVal("object", "absent", "obj")
ObjThenNC == JsVal("object", "noncallable", "objThenNC")
FnPlain   == JsVal("function", "absent", "fn")
ErrBoom   == JsVal("string", "absent", "boom")
HookErr   == JsVal("object", "absent", "hookError")
SinkErr   == JsVal("object", "absent", "sinkError")
SubstX    == JsVal("string", "absent", "substituted")
AfterFn   == JsVal("function", "absent", "afterHook")
Promise(p) == JsVal("object", "callable", p)
False     == JsVal("boolean", "absent", "false")
True      == JsVal("boolean", "absent", "true")
NumZero   == JsVal("number", "absent", "0")
EmptyStr  == JsVal("string", "absent", "")
FnThenNC  == JsVal("function", "noncallable", "fnThenNC")
\* A function carrying a callable `then` that behaves like a promise's.
ThenableFn == JsVal("function", "callable", "PR")
TypeErr   == JsVal("object", "absent", "TypeError")

Falsy == {Undefined, Null, False, NumZero, EmptyStr}
Truthy(v) == v \notin Falsy

PromiseIds == {"PA", "PW", "PR", "PD"}

\* Values a resolver can return immediately or a deferred value can resolve to.
ImmValues ==
  {Num42, Undefined, Null, ObjPlain, ObjThenNC, FnPlain,
   False, True, NumZero, EmptyStr, FnThenNC}
Errors == {ErrBoom}

\* `'then' in result` raises a TypeError when result is not an object.
InThrows(result) == result.typ \notin {"object", "function"} \/ result = Null

\* isThenable without the `!!result` test in front of typeof result === 'object'.
isThenableEvalNoNullTest(result) ==
  IF ~(result.typ = "object" \/ result.typ = "function") THEN "false"
  ELSE IF InThrows(result) THEN "TypeError"
  ELSE IF result.then = "absent" THEN "false"
  ELSE IF result.then = "callable" THEN "true"
  ELSE "false"

\* isThenable(result), evaluated left to right with short-circuiting: "true",
\* "false", or "TypeError" when the evaluation itself throws.
isThenableEval(result) ==
  IF ~((Truthy(result) /\ result.typ = "object") \/ result.typ = "function")
  THEN "false"
  ELSE IF InThrows(result) THEN "TypeError"
  ELSE IF result.then = "absent" THEN "false"
  ELSE IF result.then = "callable" THEN "true"
  ELSE "false"

isThenable(result) == isThenableEval(result) = "true"

\* Completions of a call.
Return(v) == [kind |-> "return", val |-> v]
Throw(e)  == [kind |-> "throw", val |-> e]
NoRet     == [kind |-> "none", val |-> Undefined]

\* What a resolver function does when it is called.
ResolverBehaviours ==
  {Return(v) : v \in ImmValues \cup {Promise("PR"), ThenableFn}}
  \cup {Throw(e) : e \in Errors}

\* What onResolverCalled returns: nothing, an after-hook, a deferred value that
\* resolves to nothing / to an after-hook / rejects; or it throws.
HookKinds == {"none", "after", "deferNone", "deferAfter", "deferReject", "throw"}

\* What the after-hook does when called: nothing more, setResult(SubstX), or throw.
AfterKinds == {"plain", "set", "throw"}

HookReturn(hk) ==
  CASE hk = "none" -> Undefined
    [] hk = "after" -> AfterFn
    [] OTHER -> Promise("PA")

\* The after-hook called with {result: v, setResult}: the value left in the
\* handler's `result` variable, or the exception the hook raised.
CallHook(v, hb) ==
  CASE hb = "throw" -> Throw(SinkErr)
    [] hb = "set" -> Return(SubstX)
    [] OTHER -> Return(v)

\* resolveField with a catch block that reports the error to the hook and does
\* not re-throw it.
resolveFieldSwallow(rb, hb) ==
  IF rb.kind = "throw"
  THEN [out |-> IF CallHook(rb.val, hb).kind = "throw"
                THEN CallHook(rb.val, hb) ELSE Return(Undefined),
        ran |-> 1, hooks |-> <<rb.val>>, attach |-> FALSE]
  ELSE [out |-> Return(Undefined), ran |-> 1, hooks |-> <<>>,
        attach |-> isThenable(rb.val)]

\* resolveField(resolve, hook), synchronous part. rb is what resolve() does.
\* ran: executions of resolve(); hooks: after-hook invocations; attach: whether
\* result.then(...) was registered.
resolveField(rb, hb) ==
  IF rb.kind = "throw"
  THEN [out |-> IF CallHook(rb.val, hb).kind = "throw"
                THEN CallHook(rb.val, hb) ELSE Throw(rb.val),
        ran |-> 1, hooks |-> <<rb.val>>, attach |-> FALSE]
  ELSE IF isThenableEval(rb.val) = "TypeError"
  THEN [out |-> Throw(TypeErr), ran |-> 1, hooks |-> <<>>, attach |-> FALSE]
  ELSE IF isThenable(rb.val)
  THEN [out |-> Return(Undefined), ran |-> 1, hooks |-> <<>>, attach |-> TRUE]
  ELSE [out |-> Return(Undefined), ran |-> 1, hooks |-> <<>>, attach |-> FALSE]

\* The continuations resolveField registers on a deferred result.
onResolved(resolved, hb) ==
  [out |-> CallHook(resolved, hb), hooks |-> <<resolved>>]

\* The rejection continuation without its hook call.
onRejectedSilent(error, hb) == [out |-> Throw(error), hooks |-> <<>>]

onRejected(error, hb) ==
  [out |-> IF CallHook(error, hb).kind = "throw"
           THEN CallHook(error, hb) ELSE Throw(error),
   hooks |-> <<error>>]

-----------------------------------------------------------------------------
\* wrapResolver: one invocation of the wrapped resolve function.

\* The (root, args, context, info) a resolver is called with.
ArgTuple(n) ==
  [root |-> <<"root", n>>, args |-> <<"args", n>>,
   context |-> <<"context", n>>, info |-> <<"info", n>>]
ArgTuples == {ArgTuple(1), ArgTuple(2)}

Inputs ==
  {[hk |-> hk, hb |-> hb, replace |-> FALSE, orig |-> o, repl |-> Return(Undefined),
    args |-> a] :
     hk \in HookKinds, hb \in AfterKinds, o \in ResolverBehaviours, a \in ArgTuples}
  \cup
  {[hk |-> hk, hb |-> hb, replace |-> TRUE, orig |-> o, repl |-> r, args |-> a] :
     hk \in HookKinds, hb \in AfterKinds, o \in ResolverBehaviours,
     r \in ResolverBehaviours, a \in ArgTuples}

\* `resolve` after onResolverCalled ran: the original, or the function handed to
\* replaceResolverFn.
\* `resolve` declared outside the closure: a replacement made by one invocation
\* stays in force for the following ones.
resolveNameShared(i) ==
  IF i.replace \/ replacedBefore THEN "replacement" ELSE "original"

resolveName(i) == IF i.replace THEN "replacement" ELSE "original"
resolveBehaviour(i) == IF i.replace THEN i.repl ELSE i.orig

Times(n, x) == [k \in 1..n |-> x]

\* `return resolve(root, args, context, info)` (lines 114 and 120).
\* The direct call with context and info handed over in each other's place.
callDirectSwapped(i) ==
  [out |-> resolveBehaviour(i), ran |-> <<resolveName(i)>>, hooks |-> <<>>,
   attach |-> FALSE, wait |-> FALSE,
   argv |-> <<[i.args EXCEPT !.context = i.args.info, !.info = i.args.context]>>]

callDirect(i) ==
  [out |-> resolveBehaviour(i), ran |-> <<resolveName(i)>>, hooks |-> <<>>,
   attach |-> FALSE, wait |-> FALSE, argv |-> <<i.args>>]

\* `return resolveField(() => resolve(root, args, context, info), hook)`
\* (lines 123 and 127).
callResolveField(i) ==
  LET rf == resolveField(resolveBehaviour(i), i.hb)
  IN [out |-> rf.out, ran |-> Times(rf.ran, resolveName(i)), hooks |-> rf.hooks,
      attach |-> rf.attach, wait |-> FALSE, argv |-> Times(rf.ran, i.args)]

\* The body of the wrapped resolve function, up to its return or throw.
wrapResolve(i) ==
  LET after == HookReturn(i.hk)
  IN IF i.hk = "throw"
     THEN [out |-> Throw(HookErr), ran |-> <<>>, hooks |-> <<>>,
           attach |-> FALSE, wait |-> FALSE, argv |-> <<>>]
     ELSE IF ~Truthy(after) THEN callDirect(i)
     ELSE IF isThenable(after)
     THEN [out |-> Return(Promise("PW")), ran |-> <<>>, hooks |-> <<>>,
           attach |-> FALSE, wait |-> TRUE, argv |-> <<>>]
     ELSE callResolveField(i)

\* The after.then callback without the `return` in its `if (!hook)` branch: the
\* resolver is called directly and then again through resolveField.
afterThenFallThrough(hook, i) ==
  IF ~Truthy(hook)
  THEN [callResolveField(i) EXCEPT !.ran = callDirect(i).ran \o @]
  ELSE callResolveField(i)

\* The callback given to after.then (lines 118-124), called with the value the
\* deferred hook result resolved to.
afterThen(hook, i) ==
  IF ~Truthy(hook) THEN callDirect(i) ELSE callResolveField(i)

Pending == [st |-> "pending", val |-> Undefined]
Absent  == [st |-> "none", val |-> Undefined]
Settled(p) == p.st \in {"fulfilled", "rejected"}

\* The deferred value a completion settles with (a thrown completion rejects,
\* a returned deferred value is adopted, any other value fulfils).
SettleWith(c) ==
  IF c.kind = "throw" THEN [st |-> "rejected", val |-> c.val]
  ELSE IF isThenable(c.val) THEN [st |-> "adopt", val |-> Undefined]
  ELSE [st |-> "fulfilled", val |-> c.val]

\* Whether running the resolver left its deferred result PR outstanding.
ReturnsDeferred(r, i) ==
  /\ r.ran # <<>>
  /\ resolveBehaviour(i).kind = "return"
  /\ isThenable(resolveBehaviour(i).val)

CallWrapped(i) ==
  /\ wst = "idle"
  /\ LET r == wrapResolve(i)
     IN /\ ret' = r.out
        /\ calls' = r.ran
        /\ hookCalls' = r.hooks
        /\ callArgs' = r.argv
        /\ prom' = [p \in PromiseIds |->
                      CASE p = "PA" -> IF r.wait THEN Pending ELSE Absent
                        [] p = "PW" -> IF r.wait THEN Pending ELSE Absent
                        [] p = "PR" -> IF ReturnsDeferred(r, i) THEN Pending ELSE Absent
                        [] p = "PD" -> IF r.attach THEN Pending ELSE Absent]
  /\ wst' = "active"
  /\ inp' = i
  /\ UNCHANGED replacedBefore
  /\ UNCHANGED <<pvars, cvars>>

\* The deferred value returned by onResolverCalled settles.
SettleAfter ==
  /\ wst = "active"
  /\ prom["PA"].st = "pending"
  /\ prom' = [prom EXCEPT !["PA"] =
        CASE inp.hk = "deferNone" -> [st |-> "fulfilled", val |-> Undefined]
          [] inp.hk = "deferAfter" -> [st |-> "fulfilled", val |-> AfterFn]
          [] OTHER -> [st |-> "rejected", val |-> HookErr]]
  /\ UNCHANGED <<wst, inp, ret, calls, hookCalls, callArgs, replacedBefore>>
  /\ UNCHANGED <<pvars, cvars>>

\* The reaction registered by after.then(...) runs.
RunAfterThen ==
  /\ wst = "active"
  /\ Settled(prom["PA"])
  /\ prom["PW"].st = "pending"
  /\ IF prom["PA"].st = "rejected"
     THEN /\ prom' = [prom EXCEPT !["PW"] = prom["PA"]]
          /\ UNCHANGED <<calls, hookCalls, callArgs>>
     ELSE LET r == afterThen(prom["PA"].val, inp)
          IN /\ calls' = calls \o r.ran
             /\ callArgs' = callArgs \o r.argv
             /\ hookCalls' = hookCalls \o r.hooks
             /\ prom' = [prom EXCEPT
                  !["PW"] = SettleWith(r.out),
                  !["PR"] = IF ReturnsDeferred(r, inp) THEN Pending ELSE Absent,
                  !["PD"] = IF r.attach THEN Pending ELSE Absent]
  /\ UNCHANGED <<wst, inp, ret, replacedBefore>>
  /\ UNCHANGED <<pvars, cvars>>

\* The deferred value returned by the resolver settles.
SettleResult(o) ==
  /\ wst = "active"
  /\ prom["PR"].st = "pending"
  /\ prom' = [prom EXCEPT !["PR"] = o]
  /\ UNCHANGED <<wst, inp, ret, calls, hookCalls, callArgs, replacedBefore>>
  /\ UNCHANGED <<pvars, cvars>>

Settlements ==
  {[st |-> "fulfilled", val |-> v] : v \in ImmValues}
  \cup {[st |-> "rejected", val |-> e] : e \in Errors}

\* The reaction registered by result.then(...) in resolveField runs.
RunResultThen ==
  /\ wst = "active"
  /\ Settled(prom["PR"])
  /\ prom["PD"].st = "pending"
  /\ LET h == IF prom["PR"].st = "fulfilled"
              THEN onResolved(prom["PR"].val, inp.hb)
              ELSE onRejected(prom["PR"].val, inp.hb)
     IN /\ hookCalls' = hookCalls \o h.hooks
        /\ prom' = [prom EXCEPT !["PD"] = SettleWith(h.out)]
  /\ UNCHANGED <<wst, inp, ret, calls, callArgs, replacedBefore>>
  /\ UNCHANGED <<pvars, cvars>>

\* PW, resolved with the resolver's deferred result, follows it.
RunAdopt ==
  /\ wst = "active"
  /\ Settled(prom["PR"])
  /\ prom["PW"].st = "adopt"
  /\ prom' = [prom EXCEPT !["PW"] = prom["PR"]]
  /\ UNCHANGED <<wst, inp, ret, calls, hookCalls, callArgs, replacedBefore>>
  /\ UNCHANGED <<pvars, cvars>>

\* Nothing of the invocation is outstanding any more.
Quiescent ==
  /\ wst = "active"
  /\ \A p \in PromiseIds : prom[p].st \in {"none", "fulfilled", "rejected"}

IdleInput ==
  [hk |-> "none", hb |-> "plain", replace |-> FALSE,
   orig |-> Return(Undefined), repl |-> Return(Undefined), args |-> ArgTuple(1)]

\* The caller is done with the invocation; the wrapped resolver can be called again.
NextInvocation ==
  /\ Quiescent
  /\ wst' = "idle"
  /\ inp' = IdleInput
  /\ ret' = NoRet
  /\ prom' = [p \in PromiseIds |-> Absent]
  /\ calls' = <<>>
  /\ hookCalls' = <<>>
  /\ callArgs' = <<>>
  /\ replacedBefore' = (replacedBefore \/ (inp.replace /\ inp.hk # "throw"))
  /\ UNCHANGED <<pvars, cvars>>

InitWrapVars ==
  /\ wst = "idle"
  /\ inp = IdleInput
  /\ ret = NoRet
  /\ prom = [p \in PromiseIds |-> Absent]
  /\ calls = <<>>
  /\ hookCalls = <<>>
  /\ callArgs = <<>>
  /\ replacedBefore = FALSE

-----------------------------------------------------------------------------
\* useTiming: option merge and hook registration.

MaxDepth == 1       \* wrapResolver layers a schema can accumulate
MaxResolvers == 1   \* field-resolver invocations per request

Categories ==
  {"context", "parsing", "validation", "execution", "subscription", "resolver"}
Phases == Categories \ {"resolver"}

\* rawOptions: per sink, the key is absent, explicitly undefined, or a callback.
RawOptions ==
  [sinks : [Categories -> {"absent", "undefined", "callback"}],
   skipIntrospection : {"absent", "false", "true"}]

\* Options objects that spell out every key.
ExplicitOptions ==
  [sinks : [Categories -> {"undefined", "callback"}],
   skipIntrospection : {"false", "true"}]

\* Options objects that spell out only the sinks they switch off and leave the
\* other keys to the defaults.
DisablingOptions ==
  [sinks : [Categories -> {"absent", "undefined"}],
   skipIntrospection : {"absent", "true"}]

\* useTiming() called without options, or with {}.
DefaultRaw ==
  [sinks |-> [c \in Categories |-> "absent"], skipIntrospection |-> "absent"]

\* {...DEFAULT_OPTIONS, ...(rawOptions || {})}: a sink is set unless the caller
\* passed undefined for it (every category has a default).
mergeOptions(raw) ==
  [sinks |-> {c \in Categories : raw.sinks[c] # "undefined"},
   skip |-> raw.skipIntrospection = "true"]

\* useTiming whose schema rewrite is registered with the resolver sink alone,
\* outside the subscription branch.
useTimingRewriteAlways(o) ==
  (IF "context" \in o.sinks THEN {"onContextBuilding"} ELSE {})
  \cup (IF "parsing" \in o.sinks THEN {"onParse"} ELSE {})
  \cup (IF "validation" \in o.sinks THEN {"onValidate"} ELSE {})
  \cup (IF "execution" \in o.sinks
        THEN IF "resolver" \in o.sinks
             THEN {"onExecute", "onResolverCalled"}
             ELSE {"onExecute"}
        ELSE {})
  \cup (IF "subscription" \in o.sinks
        THEN IF "resolver" \in o.sinks
             THEN {"onSubscribe", "onResolverCalled"}
             ELSE {"onSubscribe"}
        ELSE {})
  \cup (IF "resolver" \in o.sinks THEN {"onSchemaChange"} ELSE {})

\* useTiming whose execution branch registers onResolverCalled without looking
\* at the resolver sink.
useTimingResolverAlways(o) ==
  (IF "context" \in o.sinks THEN {"onContextBuilding"} ELSE {})
  \cup (IF "parsing" \in o.sinks THEN {"onParse"} ELSE {})
  \cup (IF "validation" \in o.sinks THEN {"onValidate"} ELSE {})
  \cup (IF "execution" \in o.sinks THEN {"onExecute", "onResolverCalled"} ELSE {})
  \cup (IF "subscription" \in o.sinks
        THEN IF "resolver" \in o.sinks
             THEN {"onSubscribe", "onSchemaChange", "onResolverCalled"}
             ELSE {"onSubscribe"}
        ELSE {})

\* The hooks the plugin object returned by useTiming carries.
useTiming(o) ==
  (IF "context" \in o.sinks THEN {"onContextBuilding"} ELSE {})
  \cup (IF "parsing" \in o.sinks THEN {"onParse"} ELSE {})
  \cup (IF "validation" \in o.sinks THEN {"onValidate"} ELSE {})
  \cup (IF "execution" \in o.sinks
        THEN IF "resolver" \in o.sinks
             THEN {"onExecute", "onResolverCalled"}
             ELSE {"onExecute"}
        ELSE {})
  \cup (IF "subscription" \in o.sinks
        THEN IF "resolver" \in o.sinks
             THEN {"onSubscribe", "onSchemaChange", "onResolverCalled"}
             ELSE {"onSubscribe"}
        ELSE {})

Hooks == useTiming(opts)

\* Operation texts, as token sequences.
Sources ==
  {<<"{", "__schema", "}">>, <<"{", "hello", "}">>, <<"{", "__schema", "hello", "}">>}

\* isIntrospectionOperationString (../utils): the text mentions __schema.
isIntrospectionOperationString(src) ==
  \E k \in DOMAIN src : src[k] = "__schema"

\* The before-hooks: what each does when the pipeline calls it.
\* timer: a start marker is captured and an after-callback returned;
\* extend: extendContext({[envelopIsIntrospectionSymbol]: true}) is called.
onContextBuildingHook(mk) == [timer |-> ~mk, extend |-> FALSE]

\* onParse that sets the marker and goes on to start its timer.
onParseHookNoReturn(skip, src) ==
  [timer |-> TRUE, extend |-> skip /\ isIntrospectionOperationString(src)]

\* onParse that classifies the text without looking at skipIntrospection.
onParseHookIgnoreSkip(skip, src) ==
  IF isIntrospectionOperationString(src)
  THEN [timer |-> FALSE, extend |-> TRUE]
  ELSE [timer |-> TRUE, extend |-> FALSE]

onParseHook(skip, src) ==
  IF skip /\ isIntrospectionOperationString(src)
  THEN [timer |-> FALSE, extend |-> TRUE]
  ELSE [timer |-> TRUE, extend |-> FALSE]

\* onValidate without the marker check.
onValidateHookUnchecked(mk) == [timer |-> TRUE, extend |-> FALSE]

onValidateHook(mk) == [timer |-> ~mk, extend |-> FALSE]

onExecuteHook(mk) == [timer |-> ~mk, extend |-> FALSE]

onSubscribeHook(mk) == [timer |-> ~mk, extend |-> FALSE]

\* onResolverCalled of the plugin: always captures a start marker and returns
\* an after-callback.
onResolverCalledHook(mk) == [timer |-> TRUE, extend |-> FALSE]

\* Sink invocations made by one call of a phase's after-callback.
afterCallback(sinkSet) == IF sinkSet THEN 1 ELSE 0

Zero == [c \in Categories |-> 0]
Add(f, c, n) == [f EXCEPT ![c] = @ + n]

NoHook == [timer |-> FALSE, extend |-> FALSE]

\* The pipeline calls a phase's before-hook, if the plugin registered one.
Before(cat, h, next) ==
  /\ pc' = next
  /\ marker' = (marker \/ h.extend)
  /\ ctxWrites' = IF h.extend THEN ctxWrites + 1 ELSE ctxWrites
  /\ afterReg' = IF h.timer THEN afterReg \cup {cat} ELSE afterReg
  /\ reads' = IF h.timer THEN Add(reads, cat, 1) ELSE reads
  /\ UNCHANGED <<rawOptions, opts, depth, source, emitted, rinv, inflight, nres>>
  /\ UNCHANGED <<wvars, cvars>>

\* The pipeline calls the after-callback the before-hook returned, if any:
\* deltaFrom reads the clock and the sink is invoked.
After(cat, next) ==
  /\ pc' = next
  /\ IF cat \in afterReg
     THEN /\ reads' = Add(reads, cat, 1)
          /\ emitted' = Add(emitted, cat, afterCallback(cat \in opts.sinks))
     ELSE UNCHANGED <<reads, emitted>>
  /\ afterReg' = afterReg \ {cat}
  /\ UNCHANGED <<rawOptions, opts, depth, source, marker, ctxWrites, mode, rinv, inflight, nres>>
  /\ UNCHANGED <<wvars, cvars>>

\* A request goes through parse, validate, context building and then execute or
\* subscribe, in this order; field resolvers run inside execute / subscribe.
IdleRinv == [st |-> "idle", meas |-> 0]

\* The deferred value a field resolver returned is pending, or has settled and
\* its reactions have not run yet.
InFlight(r) == r.st \in {"pending", "fulfilled", "rejected"}

StartRequest(src) ==
  /\ pc \in {"idle", "done"}
  /\ pc' = "parse"
  /\ source' = src
  /\ marker' = FALSE
  /\ ctxWrites' = 0
  /\ afterReg' = {}
  /\ emitted' = Zero
  /\ reads' = Zero
  /\ mode' = "none"
  /\ rinv' = IdleRinv
  /\ nres' = 0
  /\ UNCHANGED <<rawOptions, opts, depth, inflight>>
  /\ UNCHANGED <<wvars, cvars>>

onParse ==
  /\ pc = "parse"
  /\ Before("parsing",
            IF "onParse" \in Hooks THEN onParseHook(opts.skip, source) ELSE NoHook,
            "parsing")
  /\ UNCHANGED mode

onParseAfter == pc = "parsing" /\ After("parsing", "validate")

onValidate ==
  /\ pc = "validate"
  /\ Before("validation",
            IF "onValidate" \in Hooks THEN onValidateHook(marker) ELSE NoHook,
            "validating")
  /\ UNCHANGED mode

onValidateAfter == pc = "validating" /\ After("validation", "context")

onContextBuilding ==
  /\ pc = "context"
  /\ Before("context",
            IF "onContextBuilding" \in Hooks THEN onContextBuildingHook(marker) ELSE NoHook,
            "contextBuilding")
  /\ UNCHANGED mode

onContextBuildingAfter == pc = "contextBuilding" /\ After("context", "operate")

onExecute ==
  /\ pc = "operate"
  /\ Before("execution",
            IF "onExecute" \in Hooks THEN onExecuteHook(marker) ELSE NoHook,
            "executing")
  /\ mode' = "execute"

onSubscribe ==
  /\ pc = "operate"
  /\ Before("subscription",
            IF "onSubscribe" \in Hooks THEN onSubscribeHook(marker) ELSE NoHook,
            "subscribing")
  /\ mode' = "subscribe"

onExecuteDone ==
  /\ pc = "executing"
  /\ After("execution", "done")

onSubscribeResult ==
  /\ pc = "subscribing"
  /\ After("subscription", "done")

-----------------------------------------------------------------------------
\* Field resolvers of the schema and the resolver hooks.

\* onSchemaChange: replaceSchema(mapSchema(schema, wrapResolver ...)) puts one
\* more wrapResolver layer around every field resolver of the schema it is given.
onSchemaChange(d) == d + 1

\* The hook onSchemaChange hands to wrapResolver (lines 245-251): it returns an
\* after-callback synchronously, replaces nothing and substitutes nothing.
timingHookInput(rb) ==
  [hk |-> "after", hb |-> "plain", replace |-> FALSE,
   orig |-> rb, repl |-> Return(Undefined), args |-> ArgTuple(1)]

\* A field resolver behind d wrapResolver layers, called once.
\* hooks: after-callbacks run before it returns; starts: start markers captured.
RECURSIVE schemaResolver(_, _)
schemaResolver(d, rb) ==
  IF d = 0
  THEN [out |-> rb, hooks |-> 0, attach |-> FALSE, starts |-> 0]
  ELSE LET inner == schemaResolver(d - 1, rb)
           w == wrapResolve(timingHookInput(inner.out))
       IN [out |-> w.out,
           hooks |-> inner.hooks + Len(w.hooks),
           attach |-> inner.attach \/ w.attach,
           starts |-> inner.starts + 1]

IsDeferred(c) == c.kind = "return" /\ isThenable(c.val)

\* What the schema's own field resolvers do in the pipeline, one of each kind
\* resolveField tells apart: a truthy and a falsy immediate value, a promise, a
\* callable thenable, a synchronous throw; and how a deferred value settles.
FieldResolvers ==
  {Return(Num42), Return(Null), Return(Promise("PR")), Return(ThenableFn),
   Throw(ErrBoom)}
FieldSettlements ==
  {[st |-> "fulfilled", val |-> Num42], [st |-> "rejected", val |-> ErrBoom]}

MaxInFlight == 1    \* invocations with reactions outstanding at the same time

\* The pipeline resolves one field: it calls the plugin's onResolverCalled where
\* its native per-resolver hook exists (execution), calls the schema's resolver,
\* and calls the returned after-callback once the resolver's result is settled.
\* Earlier invocations, settled or not, play no part in the call.
ResolverCall(rb) ==
  /\ pc \in {"executing", "subscribing"}
  /\ nres < MaxResolvers
  /\ LET sr == schemaResolver(depth, rb)
         h == IF "onResolverCalled" \in Hooks /\ mode = "execute"
              THEN onResolverCalledHook(marker) ELSE NoHook
         nativeNow == h.timer /\ ~IsDeferred(sr.out)
         m == (sr.hooks + (IF nativeNow THEN 1 ELSE 0))
                * afterCallback("resolver" \in opts.sinks)
         r == [st |-> IF IsDeferred(rb) THEN "pending" ELSE "settled",
               val |-> Undefined,
               meas |-> m,
               native |-> h.timer /\ IsDeferred(sr.out),
               attach |-> sr.attach]
         owed == IsDeferred(rb) /\ (r.native \/ r.attach)
     IN /\ owed => BagCardinality(inflight) < MaxInFlight
        /\ rinv' = IF owed THEN rinv ELSE [st |-> "settled", meas |-> m]
        /\ inflight' = IF owed THEN inflight (+) SetToBag({r}) ELSE inflight
        /\ emitted' = Add(emitted, "resolver", m)
        /\ reads' = Add(reads, "resolver", sr.starts + (IF h.timer THEN 1 ELSE 0) + m)
  /\ nres' = nres + 1
  /\ UNCHANGED <<rawOptions, opts, depth, pc, source, marker, ctxWrites, afterReg, mode>>
  /\ UNCHANGED <<wvars, cvars>>

\* The deferred value invocation r's resolver returned settles; its reactions
\* are queued and have not run yet.
ResolverSettle(r, o) ==
  /\ BagIn(r, inflight)
  /\ r.st = "pending"
  /\ LET q == [r EXCEPT !.st = o.st, !.val = o.val]
     IN inflight' = (inflight (-) SetToBag({r})) (+) SetToBag({q})
  /\ UNCHANGED <<rawOptions, opts, depth, pc, source, marker, ctxWrites, afterReg, emitted, reads,
                  mode, rinv, nres>>
  /\ UNCHANGED <<wvars, cvars>>

\* The queued reactions of invocation r run: the continuation resolveField
\* registered with result.then, and the native after-callback if still owed.
ResolverContinue(r) ==
  /\ BagIn(r, inflight)
  /\ r.st \in {"fulfilled", "rejected"}
  /\ LET k == IF r.st = "fulfilled"
              THEN onResolved(r.val, "plain") ELSE onRejected(r.val, "plain")
         m == ((IF r.attach THEN Len(k.hooks) ELSE 0)
               + (IF r.native THEN 1 ELSE 0))
                * afterCallback("resolver" \in opts.sinks)
     IN /\ rinv' = [st |-> "settled", meas |-> r.meas + m]
        /\ inflight' = inflight (-) SetToBag({r})
        /\ emitted' = Add(emitted, "resolver", m)
        /\ reads' = Add(reads, "resolver", m)
  /\ UNCHANGED <<rawOptions, opts, depth, pc, source, marker, ctxWrites, afterReg, mode, nres>>
  /\ UNCHANGED <<wvars, cvars>>

\* The pipeline's schema changes between requests: either a schema whose
\* resolvers are unwrapped, or one derived from the current schema.
SchemaChange(fresh) ==
  /\ pc \in {"idle", "done"}
  /\ LET base == IF fresh THEN 0 ELSE depth
         d == IF "onSchemaChange" \in Hooks THEN onSchemaChange(base) ELSE base
     IN /\ d <= MaxDepth
        /\ depth' = d
  /\ UNCHANGED <<rawOptions, opts, pc, source, marker, ctxWrites, afterReg, emitted, reads, mode,
                  rinv, inflight, nres>>
  /\ UNCHANGED <<wvars, cvars>>

-----------------------------------------------------------------------------
\* The clock, deltaFrom, and the closures that hold a start marker.

MaxSpans == 2       \* measurements that can be in flight at once

HR_TO_NS == 1000000000
NS_TO_MS == 1000000

\* Values process.hrtime() takes: whole seconds and the nanoseconds within the
\* second, including both ends of the nanosecond range.
ClockSeconds == {0, 1}
ClockNanos == {0, 1, 999999999}
ClockTimes == {<<s, n>> : s \in ClockSeconds, n \in ClockNanos}

\* The clock is monotonic.
Later(t, u) == u[1] > t[1] \/ (u[1] = t[1] /\ u[2] > t[2])

\* process.hrtime(prev) at clock reading cur: the difference as [seconds,
\* nanoseconds], with a borrow when the nanosecond part would be negative.
hrtimeSince(prev, cur) ==
  IF cur[2] < prev[2]
  THEN <<cur[1] - prev[1] - 1, cur[2] - prev[2] + HR_TO_NS>>
  ELSE <<cur[1] - prev[1], cur[2] - prev[2]>>

\* deltaFrom(hrtime) called at clock reading cur. ms is ns / NS_TO_MS, kept
\* exact as its whole part and the remainder in nanoseconds.
deltaFrom(hrtime, cur) ==
  LET delta == hrtimeSince(hrtime, cur)
      ns == delta[1] * HR_TO_NS + delta[2]
  IN [ns |-> ns, ms |-> [whole |-> ns \div NS_TO_MS, rest |-> ns % NS_TO_MS]]

SpanKinds == {"resolver", "execution"}
NoMeasurement == [ns |-> -1, ms |-> [whole |-> -1, rest |-> 0]]
IdleSpan == [st |-> "idle", kind |-> "resolver", start |-> <<0, 0>>, rep |-> NoMeasurement]

\* A before-hook that keeps its start marker in one variable shared by every
\* measurement in flight, instead of a const local to the call.
beforeHookShared(sp, k, kind, t) ==
  [j \in DOMAIN sp |->
     IF j = k THEN [st |-> "open", kind |-> kind, start |-> t, rep |-> NoMeasurement]
     ELSE IF sp[j].st = "open" THEN [sp[j] EXCEPT !.start = t]
     ELSE sp[j]]

\* onResolverCalled / onExecute (and the other before-hooks alike): capture
\* `const ...StartTime = process.hrtime()` and return the closure over it.
beforeHook(sp, k, kind, t) ==
  [sp EXCEPT ![k] = [st |-> "open", kind |-> kind, start |-> t, rep |-> NoMeasurement]]

\* The returned closure: options.on...Measurement(..., deltaFrom(startTime)).
afterHook(sp, k, t) ==
  [sp EXCEPT ![k] = [@ EXCEPT !.st = "done", !.rep = deltaFrom(sp[k].start, t)]]

\* Time passes.
Tick(t) ==
  /\ Later(now, t)
  /\ now' = t
  /\ UNCHANGED <<spans, began, ended>>
  /\ UNCHANGED <<wvars, pvars>>

\* The pipeline starts measurement k: it calls the before-hook.
SpanBefore(k, kind) ==
  /\ spans[k].st # "open"
  /\ spans' = beforeHook(spans, k, kind, now)
  /\ began' = [began EXCEPT ![k] = now]
  /\ UNCHANGED <<now, ended>>
  /\ UNCHANGED <<wvars, pvars>>

\* The pipeline finishes measurement k: it calls the after-hook it was given.
SpanAfter(k) ==
  /\ spans[k].st = "open"
  /\ spans' = afterHook(spans, k, now)
  /\ ended' = [ended EXCEPT ![k] = now]
  /\ UNCHANGED <<now, began>>
  /\ UNCHANGED <<wvars, pvars>>

InitClockVars ==
  /\ now = <<0, 0>>
  /\ spans = [k \in 1..MaxSpans |-> IdleSpan]
  /\ began = [k \in 1..MaxSpans |-> <<0, 0>>]
  /\ ended = [k \in 1..MaxSpans |-> <<0, 0>>]

-----------------------------------------------------------------------------
\* Specifications.

InitPluginVars(given) ==
  /\ rawOptions \in given
  /\ opts = mergeOptions(rawOptions)
  /\ depth = IF "onSchemaChange" \in useTiming(opts) THEN onSchemaChange(0) ELSE 0
  /\ pc = "idle"
  /\ source = <<>>
  /\ marker = FALSE
  /\ ctxWrites = 0
  /\ afterReg = {}
  /\ emitted = Zero
  /\ reads = Zero
  /\ mode = "none"
  /\ rinv = IdleRinv
  /\ inflight = EmptyBag
  /\ nres = 0

\* The plugin in a request pipeline.
Init == InitPluginVars(ExplicitOptions) /\ InitWrapVars /\ InitClockVars

Next ==
  \/ \E src \in Sources : StartRequest(src)
  \/ onParse
  \/ onParseAfter
  \/ onValidate
  \/ onValidateAfter
  \/ onContextBuilding
  \/ onContextBuildingAfter
  \/ onExecute
  \/ onSubscribe
  \/ (pc \in {"executing", "subscribing"} /\ \E rb \in FieldResolvers : ResolverCall(rb))
  \/ \E r \in BagToSet(inflight), o \in FieldSettlements : ResolverSettle(r, o)
  \/ \E r \in BagToSet(inflight) : ResolverContinue(r)
  \/ onExecuteDone
  \/ onSubscribeResult
  \/ \E fresh \in BOOLEAN : SchemaChange(fresh)

Spec == Init /\ [][Next]_vars

\* The same pipeline, with options objects that leave keys out as well.
InitOptions ==
  /\ InitPluginVars(DisablingOptions)
  /\ InitWrapVars
  /\ InitClockVars

SpecOptions == InitOptions /\ [][Next]_vars

\* A resolver produced by wrapResolver, called with arbitrary hooks and resolvers.
InitWrap ==
  /\ InitWrapVars
  /\ InitClockVars
  /\ rawOptions = DefaultRaw
  /\ opts = mergeOptions(rawOptions)
  /\ depth = 0
  /\ pc = "idle"
  /\ source = <<>>
  /\ marker = FALSE
  /\ ctxWrites = 0
  /\ afterReg = {}
  /\ emitted = Zero
  /\ reads = Zero
  /\ mode = "none"
  /\ rinv = IdleRinv
  /\ inflight = EmptyBag
  /\ nres = 0

NextWrap ==
  \/ (wst = "idle" /\ \E i \in Inputs : CallWrapped(i))
  \/ SettleAfter
  \/ RunAfterThen
  \/ (prom["PR"].st = "pending" /\ \E o \in Settlements : SettleResult(o))
  \/ RunResultThen
  \/ RunAdopt
  \/ NextInvocation

SpecWrap == InitWrap /\ [][NextWrap]_vars

\* Measurements in flight at the same time, against a running clock.
InitClock ==
  /\ InitPluginVars({DefaultRaw})
  /\ InitWrapVars
  /\ InitClockVars

NextClock ==
  \/ \E t \in ClockTimes : Tick(t)
  \/ \E k \in 1..MaxSpans, kind \in SpanKinds : SpanBefore(k, kind)
  \/ \E k \in 1..MaxSpans : SpanAfter(k)

SpecClock == InitClock /\ [][NextClock]_vars

TypeOK ==
  /\ wst \in {"idle", "active"}
  /\ ret.kind \in {"none", "return", "throw"}
  /\ pc \in {"idle", "parse", "parsing", "validate", "validating", "context",
             "contextBuilding", "operate", "executing", "subscribing", "done"}
  /\ depth \in 0..MaxDepth
  /\ nres \in 0..MaxResolvers
  /\ rawOptions \in RawOptions
  /\ rinv.st \in {"idle", "settled"}
  /\ \A r \in BagToSet(inflight) : InFlight(r)
  /\ BagCardinality(inflight) <= MaxInFlight

-----------------------------------------------------------------------------
\* Claims about the resolver wrapper (checked under SpecWrap).

\* C1 (as claimed): when the hook returns a non-substituting after-hook and the
\* resolver yields V, the wrapped resolver yields V in the same shape: an
\* immediate V is returned as V, a deferred value stays a deferred value that
\* resolves to V.
C1_ValuePreservedAsClaimed ==
  (/\ wst = "active"
   /\ inp.hk = "after"
   /\ inp.hb = "plain"
   /\ resolveBehaviour(inp).kind = "return")
  => IF isThenable(resolveBehaviour(inp).val)
     THEN /\ IsDeferred(ret)
          /\ (prom["PR"].st = "fulfilled" /\ Quiescent
                => prom[ret.val.id] = prom["PR"])
     ELSE ret = resolveBehaviour(inp)

\* C2 (as claimed): when an after-hook is obtained and the resolver's deferred
\* result rejects with E, the wrapped resolver has returned a deferred value
\* that rejects with E.
C2_RejectionPreservedAsClaimed ==
  (/\ Quiescent
   /\ inp.hk \in {"after", "deferAfter"}
   /\ inp.hb = "plain"
   /\ prom["PR"].st = "rejected")
  => /\ IsDeferred(ret)
     /\ prom[ret.val.id] = prom["PR"]

\* C3: when the after-hook is obtained synchronously, does not substitute, and
\* the resolver throws E, the after-hook is invoked exactly once, with E, and the
\* wrapped resolver throws that same E.
C3_SyncThrowPreserved ==
  (/\ wst = "active"
   /\ inp.hk = "after"
   /\ inp.hb = "plain"
   /\ resolveBehaviour(inp).kind = "throw")
  => /\ hookCalls = <<resolveBehaviour(inp).val>>
     /\ ret = Throw(resolveBehaviour(inp).val)

C3_Witness ==
  /\ wst = "active"
  /\ inp.hk = "after"
  /\ inp.hb = "plain"
  /\ ~inp.replace
  /\ inp.orig = Throw(ErrBoom)
  /\ ret = Throw(ErrBoom)
  /\ hookCalls = <<ErrBoom>>

\* C4: the effective resolver (the original, or the replacement installed with
\* replaceResolverFn) is never executed more than once in an invocation, nothing
\* else is executed, and it has been executed exactly once when the wrapped
\* resolver returns (hook returned nothing or an after-hook) or when the deferred
\* hook result has been handled (it resolved to nothing or to an after-hook).
C4_NoDoubleExecution ==
  wst = "active" =>
    /\ Len(calls) <= 1
    /\ \A k \in DOMAIN calls : calls[k] = resolveName(inp)
    /\ (inp.hk \in {"none", "after"} => calls = <<resolveName(inp)>>)
    /\ (inp.hk \in {"deferNone", "deferAfter"} /\ prom["PW"].st # "pending"
          => calls = <<resolveName(inp)>>)

C4_Witness ==
  /\ Quiescent
  /\ inp.hk = "deferAfter"
  /\ inp.replace
  /\ prom["PR"].st = "rejected"
  /\ calls = <<"replacement">>

\* C5 (as claimed): when an after-hook is obtained and the resolver returns an
\* immediate value V, the after-hook has been invoked exactly once, with V, when
\* the wrapped resolver returns.
C5_ImmediateValueMeasuredAsClaimed ==
  (/\ wst = "active"
   /\ inp.hk = "after"
   /\ resolveBehaviour(inp).kind = "return"
   /\ ~isThenable(resolveBehaviour(inp).val))
  => hookCalls = <<resolveBehaviour(inp).val>>

\* What the caller of the wrapped resolver ends up with: a thrown exception, an
\* immediate value, or the settled state of the deferred value it was handed.
Delivered ==
  IF ret.kind = "throw" THEN [how |-> "throw", val |-> ret.val]
  ELSE IF IsDeferred(ret)
  THEN [how |-> prom[ret.val.id].st, val |-> prom[ret.val.id].val]
  ELSE [how |-> "value", val |-> ret.val]

\* C12 (as claimed, for the resolver wrapper): an exception thrown by the sink
\* inside the after-hook reaches the caller of the wrapped resolver, as a throw
\* or as the rejection of the deferred value it was handed.
C12_SinkErrorPropagatesAsClaimed ==
  (Quiescent /\ inp.hb = "throw" /\ hookCalls # <<>>)
  => /\ Delivered.how \in {"throw", "rejected"}
     /\ Delivered.val = SinkErr

\* C13 (as claimed): when the after-hook, invoked with the resolver's outcome,
\* calls setResult(X), the caller gets X in place of the outcome (returned for
\* an immediate value, thrown for an immediate throw, as the settled value of
\* the deferred result); when it does not, the caller gets the original outcome.
C13_SubstitutionAsClaimed ==
  (Quiescent /\ inp.hk = "after" /\ inp.hb \in {"plain", "set"})
  => LET rb == resolveBehaviour(inp)
         x == IF inp.hb = "set" THEN SubstX
              ELSE IF IsDeferred(rb) THEN prom["PR"].val ELSE rb.val
     IN Delivered =
          [how |-> IF rb.kind = "throw" THEN "throw"
                   ELSE IF IsDeferred(rb) THEN prom["PR"].st ELSE "value",
           val |-> x]

\* C14: when an after-hook is obtained and the resolver has returned a deferred
\* value, the after-hook is not invoked while that value is unsettled, is
\* invoked at most once, and once the registered continuation has run it has
\* been invoked exactly once, with the value or reason the deferred value
\* settled with.
C14_DeferredMeasuredOnSettle ==
  (/\ wst = "active"
   /\ inp.hk \in {"after", "deferAfter"}
   /\ calls # <<>>
   /\ IsDeferred(resolveBehaviour(inp)))
  => /\ Len(hookCalls) <= 1
     /\ (prom["PR"].st = "pending" => hookCalls = <<>>)
     /\ (Settled(prom["PD"]) => hookCalls = <<prom["PR"].val>>)
     /\ (Quiescent => Settled(prom["PD"]))

C14_Witness ==
  /\ Quiescent
  /\ inp.hk = "after"
  /\ inp.hb = "plain"
  /\ prom["PR"] = [st |-> "rejected", val |-> ErrBoom]
  /\ hookCalls = <<ErrBoom>>

\* The outcome of calling a resolver, as its caller would receive it directly.
Outcome(rb) ==
  IF rb.kind = "throw" THEN [how |-> "throw", val |-> rb.val]
  ELSE IF IsDeferred(rb) THEN [how |-> prom["PR"].st, val |-> prom["PR"].val]
  ELSE [how |-> "value", val |-> rb.val]

\* The same outcome handed on through a deferred value: a throw arrives as a
\* rejection, an immediate value as a fulfilment.
Deferring(o) ==
  [how |-> CASE o.how = "throw" -> "rejected"
             [] o.how = "value" -> "fulfilled"
             [] OTHER -> o.how,
   val |-> o.val]

\* C15: when the hook returns nothing, or a deferred value that resolves to
\* nothing, the effective resolver is called with the root/args/context/info
\* the wrapped resolver got, its result or exception reaches the caller
\* unmodified (through the returned deferred value in the second case), and no
\* after-hook is invoked and no continuation is put on the result.
C15_PassThrough ==
  (wst = "active" /\ inp.hk \in {"none", "deferNone"})
  => /\ hookCalls = <<>>
     /\ prom["PD"].st = "none"
     /\ \A k \in DOMAIN callArgs : callArgs[k] = inp.args
     /\ (inp.hk = "none"
           => /\ ret = resolveBehaviour(inp)
              /\ callArgs = <<inp.args>>)
     /\ (inp.hk = "deferNone"
           => /\ ret = Return(Promise("PW"))
              /\ (Quiescent
                    => /\ callArgs = <<inp.args>>
                       /\ Delivered = Deferring(Outcome(resolveBehaviour(inp)))))

C15_Witness ==
  /\ Quiescent
  /\ inp.hk = "deferNone"
  /\ inp.args = ArgTuple(2)
  /\ callArgs = <<ArgTuple(2)>>
  /\ IsDeferred(resolveBehaviour(inp))
  /\ prom["PW"] = [st |-> "rejected", val |-> ErrBoom]

\* Whether the invocation is past the point where it runs the resolver.
ResolverDue ==
  /\ wst = "active"
  /\ \/ inp.hk \in {"none", "after"}
     \/ inp.hk \in {"deferNone", "deferAfter"} /\ prom["PW"].st # "pending"

\* C16: an invocation in which the hook called replaceResolverFn(F) executes F
\* and not the original resolver; an invocation in which it did not executes the
\* original, also when an earlier invocation of the same wrapped resolver had
\* replaced it.
C16_ReplacementPerCall ==
  ResolverDue =>
    /\ inp.replace => calls = <<"replacement">>
    /\ ~inp.replace => calls = <<"original">>
    /\ inp.hk = "none" => ret = IF inp.replace THEN inp.repl ELSE inp.orig

C16_Witness ==
  /\ ResolverDue
  /\ replacedBefore
  /\ ~inp.replace
  /\ inp.hk = "after"
  /\ calls = <<"original">>

\* C19: resolveField's classification of the resolver's result never throws,
\* and takes the result for deferred (registers continuations on it) exactly
\* when it is a non-null object or a function whose `then` member is a function;
\* null, undefined, numbers, strings, booleans, objects and functions without
\* `then` or with a `then` that is not callable are taken for immediate values.
C19_DeferredClassification ==
  (/\ wst = "active"
   /\ inp.hk = "after"
   /\ resolveBehaviour(inp).kind = "return")
  => LET v == resolveBehaviour(inp).val
     IN /\ ret.kind = "return"
        /\ prom["PD"].st # "none"
             <=> /\ v.typ \in {"object", "function"}
                 /\ v # Null
                 /\ v.then = "callable"

C19_Witness ==
  /\ wst = "active"
  /\ inp.hk = "after"
  /\ ~inp.replace
  /\ inp.orig = Return(ThenableFn)
  /\ prom["PD"].st = "pending"

-----------------------------------------------------------------------------
\* Claims about the plugin in the pipeline (checked under Spec).

Introspection == opts.skip /\ isIntrospectionOperationString(source)

\* C6 (as claimed): in a request whose context carries the Introspection Marker,
\* set by parse under skip-introspection, no resolver Measurement is emitted.
C6_NoResolverMeasurementAsClaimed ==
  (Introspection /\ marker) => emitted["resolver"] = 0

\* C7: with skip-introspection and the parsing sink enabled, an introspection
\* request has the marker set once parse's before-hook ran, and no phase bracket
\* of it captures a start marker, registers an after-callback or emits a
\* Measurement.
C7_PhasesSuppressed ==
  (/\ Introspection
   /\ "parsing" \in opts.sinks
   /\ pc \notin {"idle", "parse"})
  => /\ marker
     /\ afterReg = {}
     /\ \A c \in Phases : reads[c] = 0 /\ emitted[c] = 0

C7_Witness ==
  /\ Introspection
  /\ Phases \subseteq opts.sinks
  /\ pc = "done"
  /\ mode = "subscribe"
  /\ marker
  /\ \A c \in Phases : emitted[c] = 0

\* C8 (as claimed): with skip-introspection enabled, an introspection request
\* emits no Measurement of any category, whatever sinks are enabled.
C8_EndToEndSkipAsClaimed ==
  Introspection => \A c \in Categories : emitted[c] = 0

\* Whether the request has been through phase P, after-callback included.
Completed(P) ==
  CASE P = "parsing" -> pc \notin {"idle", "parse", "parsing"}
    [] P = "validation" -> pc \notin {"idle", "parse", "parsing", "validate", "validating"}
    [] P = "context" -> pc \in {"operate", "executing", "subscribing", "done"}
    [] P = "execution" -> pc = "done" /\ mode = "execute"
    [] P = "subscription" -> pc = "done" /\ mode = "subscribe"

Suppressed(P) == IF P = "parsing" THEN Introspection ELSE marker

\* C9: a completed invocation of phase P has invoked P's sink exactly once if the
\* sink is enabled and the request is not marked as introspection (for parsing:
\* not classified as introspection under skip-introspection), and not at all
\* otherwise; a phase not completed has invoked it zero times.
C9_OneMeasurementPerPhase ==
  \A P \in Phases :
    emitted[P] = IF Completed(P) /\ P \in opts.sinks /\ ~Suppressed(P) THEN 1 ELSE 0

C9_Witness ==
  /\ pc = "done"
  /\ mode = "execute"
  /\ ~marker
  /\ opts.sinks = Categories \ {"validation"}
  /\ emitted["parsing"] = 1
  /\ emitted["validation"] = 0
  /\ emitted["context"] = 1
  /\ emitted["execution"] = 1
  /\ emitted["subscription"] = 0

\* C10 (as claimed): one invocation of a field resolver produces at most one
\* resolver Measurement.
C10_ResolverMeasuredOnceAsClaimed ==
  rinv.meas <= 1

\* The hooks that serve a measurement category.
HooksOf(c) ==
  CASE c = "context" -> {"onContextBuilding"}
    [] c = "parsing" -> {"onParse"}
    [] c = "validation" -> {"onValidate"}
    [] c = "execution" -> {"onExecute"}
    [] c = "subscription" -> {"onSubscribe"}
    [] c = "resolver" -> {"onResolverCalled", "onSchemaChange"}

\* C11: a category whose sink the caller set to undefined has none of its hooks
\* registered, and no clock read and no sink call ever happens for it; a
\* category absent from the caller's options has its (default) sink set.
C11_ZeroOverheadDisabling ==
  \A c \in Categories :
    /\ rawOptions.sinks[c] = "undefined"
         => /\ HooksOf(c) \cap Hooks = {}
            /\ reads[c] = 0
            /\ emitted[c] = 0
    /\ rawOptions.sinks[c] = "absent" => c \in opts.sinks

C11_Witness ==
  /\ rawOptions.sinks["resolver"] = "undefined"
  /\ rawOptions.sinks["execution"] = "absent"
  /\ rawOptions.sinks["subscription"] = "absent"
  /\ rawOptions.skipIntrospection = "absent"
  /\ pc = "done"
  /\ mode = "execute"
  /\ nres = MaxResolvers
  /\ reads["resolver"] = 0
  /\ emitted["execution"] = 1

\* C17: within a request the context is extended at most once; the marker is
\* set only by parse's before-hook, only under skip-introspection for a text
\* classified as introspection; no other hook changes it, and it stays set
\* until the next request starts with a fresh context.
C17_MarkerWriteDiscipline ==
  /\ [](/\ ctxWrites <= 1
        /\ marker => (Introspection /\ ctxWrites = 1))
  /\ [][(marker' # marker \/ ctxWrites' # ctxWrites)
          => \/ pc' = "parse"
             \/ /\ pc = "parse"
                /\ "onParse" \in Hooks
                /\ Introspection
                /\ ~marker /\ marker'
                /\ ctxWrites' = 1]_vars

C17_Witness ==
  /\ marker
  /\ ctxWrites = 1
  /\ pc = "done"
  /\ mode = "execute"
  /\ nres > 0
  /\ Categories \subseteq opts.sinks

\* C18: onResolverCalled is registered exactly when the resolver sink and at
\* least one of the execution and subscription sinks are set; onSchemaChange
\* exactly when the resolver and subscription sinks are both set; with the
\* resolver sink set and neither of the other two, no resolver Measurement is
\* emitted and no resolver start marker is captured.
C18_ResolverDispatcherActivation ==
  /\ "onResolverCalled" \in Hooks
       <=> /\ "resolver" \in opts.sinks
           /\ ("execution" \in opts.sinks \/ "subscription" \in opts.sinks)
  /\ "onSchemaChange" \in Hooks
       <=> ("resolver" \in opts.sinks /\ "subscription" \in opts.sinks)
  /\ ("resolver" \in opts.sinks /\ "execution" \notin opts.sinks
        /\ "subscription" \notin opts.sinks)
       => (emitted["resolver"] = 0 /\ reads["resolver"] = 0 /\ depth = 0)

C18_Witness ==
  /\ opts.sinks = {"resolver", "parsing", "validation", "context"}
  /\ pc = "done"
  /\ mode = "execute"
  /\ rinv.st = "settled"
  /\ nres = MaxResolvers
  /\ emitted["resolver"] = 0

-----------------------------------------------------------------------------
\* Claims about measurements in flight together (checked under SpecClock).

\* Nanoseconds since the clock's origin.
Instant(t) == t[1] * HR_TO_NS + t[2]

\* C20: however the before-hook and after-hook calls of several measurements
\* interleave, a measurement in flight still holds the start marker captured by
\* its own before-hook call, and a finished one has reported the time elapsed
\* between its own before-hook call and its own after-hook call; starting or
\* finishing another measurement changes neither.
C20_MeasurementIsolation ==
  \A k \in 1..MaxSpans :
    /\ spans[k].st = "open" => spans[k].start = began[k]
    /\ spans[k].st = "done"
         => /\ spans[k].start = began[k]
            /\ spans[k].rep.ns = Instant(ended[k]) - Instant(began[k])
            /\ spans[k].rep.ms.whole * NS_TO_MS + spans[k].rep.ms.rest = spans[k].rep.ns

\* Two measurements overlap (1 starts, 2 starts, 1 ends, 2 ends) at four
\* different clock readings, the first across a second boundary with a borrow.
C20_Witness ==
  /\ spans[1].st = "done"
  /\ spans[2].st = "done"
  /\ spans[1].kind # spans[2].kind
  /\ Later(began[1], began[2])
  /\ Later(began[2], ended[1])
  /\ Later(ended[1], ended[2])
  /\ ended[1][2] < began[1][2]
  /\ spans[1].rep # spans[2].rep

====
